---- MODULE Spec2Model ----
(***************************************************************************)
(* Model of the WorkerPodAutoScaler controller (pkg/controller).           *)
(*                                                                         *)
(* Part I  : the decision function GetDesiredWorkers and its helpers,      *)
(*           checked under SpecDecision (inputs drawn in Init, one call).  *)
(* Part II : the reconciliation loop (informer callbacks, rate limited     *)
(*           work queue, reconciler workers, syncHandler), checked under   *)
(*           Spec and SpecStarted.                                         *)
(*                                                                         *)
(* float64 quantities (messagesSentPerMinute, secondsToProcessOneJob) are  *)
(* held as integers counting tenths, so 0.3 is 3 and 2136.6 is 21366.      *)
(***************************************************************************)
EXTENDS Integers, Sequences, FiniteSets, TLC

VARIABLES
    \* ---- Part I: one call of GetDesiredWorkers ----
    queueMessages,            \* int32
    messagesSentPerMinute,    \* float64, in tenths
    secondsToProcessOneJob,   \* float64, in tenths
    targetMessagesPerWorker,  \* int32
    currentWorkers,           \* int32
    idleWorkers,              \* int32
    minWorkers,               \* int32
    maxWorkers,               \* int32
    maxDisruption,            \* *string: NULL or a sequence of characters
    desiredWorkers,           \* the value returned
    phase,                    \* "call" | "returned" | "fatal"
    \* ---- Part II: the controller ----
    queue,          \* workqueue: items waiting, in order
    dirty,          \* workqueue: items that need processing
    processing,     \* workqueue: items handed to a worker and not yet Done
    waitingForAdd,  \* workqueue: items delayed by AddRateLimited
    limiter,        \* rate limiter: items that carry backoff state
    shuttingDown,   \* workqueue.ShutDown() was called
    workers,        \* per reconciler worker: position (pc) and locals
    apiPolicy,      \* cluster API: the WorkerPodAutoScaler objects
    cachePolicy,    \* informer cache (workerPodAutoScalersLister)
    apiWorkload,    \* cluster API: the Deployment / ReplicaSet of a policy
    cacheWorkload,  \* informer cache (deploymentLister / replicaSetLister)
    registry,       \* c.Queues: key -> poll record
    now,            \* wall clock, in ticks
    crashed,        \* klog.Fatalf was reached: the process has exited
    events,         \* number of events of the environment so far
    actuations      \* per key: history of the workload updates commanded

decisionVars == <<queueMessages, messagesSentPerMinute, secondsToProcessOneJob,
                  targetMessagesPerWorker, currentWorkers, idleWorkers,
                  minWorkers, maxWorkers, maxDisruption, desiredWorkers, phase>>

wqVars == <<queue, dirty, processing, waitingForAdd, limiter, shuttingDown>>

clusterVars == <<apiPolicy, cachePolicy, apiWorkload, cacheWorkload>>

controllerVars == <<wqVars, workers, clusterVars, registry, now, crashed,
                    events, actuations>>

vars == <<decisionVars, controllerVars>>

\* a nil *string
NULL == "nil"
\* a nil object, and the absence of an object in a cache or a map
NIL == [nil |-> TRUE]
\* a nil *metav1.Time; a time t is held as <<t>>
NoTime == <<>>

(***************************************************************************)
(* Bounds of the model.                                                    *)
(***************************************************************************)
MaxSmall == 3
MaxTarget == 2
MaxMin == 2

\* tolerance := 0.1, held as the fraction 1 / toleranceDen
toleranceDen == 10
\* tenths per unit of the float64 quantities
Tenths == 10
\* seconds per minute: the divisor of getMinWorkers
SecondsPerMinute == 60
\* percent base of intstr.GetValueFromIntOrPercent
PercentBase == 100

(***************************************************************************)
(* Arithmetic helpers.                                                     *)
(***************************************************************************)
\* math.Ceil(a / b) for b > 0 (\div rounds towards minus infinity)
Ceil(a, b) == -((-a) \div b)

Abs(x) == IF x < 0 THEN -x ELSE x

(***************************************************************************)
(* strconv.Atoi, intstr.Parse and intstr.GetValueFromIntOrPercent as used  *)
(* by getMaxDisruptableWorkers.  A string is a sequence of characters.     *)
(***************************************************************************)
Digits == {"0", "1", "2", "3", "4", "5", "6", "7", "8", "9"}

DigitValue(c) ==
    CASE c = "0" -> 0 [] c = "1" -> 1 [] c = "2" -> 2 [] c = "3" -> 3
      [] c = "4" -> 4 [] c = "5" -> 5 [] c = "6" -> 6 [] c = "7" -> 7
      [] c = "8" -> 8 [] c = "9" -> 9

RECURSIVE ParseDigits(_, _)
ParseDigits(s, acc) ==
    IF s = <<>> THEN acc
    ELSE ParseDigits(Tail(s), 10 * acc + DigitValue(Head(s)))

IsNumeric(s) == Len(s) > 0 /\ \A i \in 1..Len(s) : s[i] \in Digits

\* strconv.Atoi: optional sign, then at least one decimal digit
Atoi(s) ==
    LET signed == Len(s) > 0 /\ s[1] \in {"+", "-"}
        body   == IF signed THEN Tail(s) ELSE s
    IN  IF IsNumeric(body)
        THEN [err |-> FALSE,
              value |-> IF signed /\ s[1] = "-" THEN -ParseDigits(body, 0)
                        ELSE ParseDigits(body, 0)]
        ELSE [err |-> TRUE, value |-> 0]

\* intstr.Parse: an Int when Atoi succeeds, a String otherwise
IntstrParse(s) ==
    LET a == Atoi(s)
    IN  IF a.err THEN [Type |-> "String", IntVal |-> 0, StrVal |-> s]
        ELSE [Type |-> "Int", IntVal |-> a.value, StrVal |-> <<>>]

\* intstr.GetValueFromIntOrPercent(v, total, roundUp = true)
GetValueFromIntOrPercent(v, total) ==
    IF v.Type = "Int" THEN [err |-> FALSE, value |-> v.IntVal]
    ELSE IF Len(v.StrVal) = 0 \/ v.StrVal[Len(v.StrVal)] # "%"
         THEN [err |-> TRUE, value |-> 0]
         ELSE LET p == Atoi(SubSeq(v.StrVal, 1, Len(v.StrVal) - 1))
              IN  IF p.err THEN [err |-> TRUE, value |-> 0]
                  ELSE [err |-> FALSE,
                        value |-> Ceil(p.value * total, PercentBase)]

(***************************************************************************)
(* getMaxDisruptableWorkers: klog.Fatalf (err = TRUE) on a nil or          *)
(* unparsable maxDisruption, otherwise the parsed value.                   *)
(***************************************************************************)
getMaxDisruptableWorkers(maxDisruptionArg, current) ==
    IF maxDisruptionArg = NULL THEN [err |-> TRUE, value |-> 0]
    ELSE GetValueFromIntOrPercent(IntstrParse(maxDisruptionArg), current)

(***************************************************************************)
(* getMinWorkers: the velocity floor.                                      *)
(***************************************************************************)
\* mutant: the velocity floor is never applied
getMinWorkersNoFloor(sentPerMinute, min, secPerJob) == min

getMinWorkers(sentPerMinute, min, secPerJob) ==
    IF secPerJob = 0 THEN min
    ELSE LET workersBasedOnMessagesSent ==
                 Ceil(secPerJob * sentPerMinute,
                      SecondsPerMinute * Tenths * Tenths)
         IN  IF workersBasedOnMessagesSent > min
             THEN workersBasedOnMessagesSent
             ELSE min

(***************************************************************************)
(* isChangeTooSmall: |desired - current| / current <= tolerance, for       *)
(* current > 0 (the only case in which the code evaluates it).             *)
(***************************************************************************)
\* mutant: the band excludes its edge (< instead of <=)
isChangeTooSmallStrict(desired, current) ==
    Abs(desired - current) * toleranceDen < current

isChangeTooSmall(desired, current) ==
    Abs(desired - current) * toleranceDen <= current

(***************************************************************************)
(* convertDesiredReplicasWithRules                                         *)
(***************************************************************************)
\* mutant: the upper bound is not enforced
convertNoUpperBound(current, desired, min, max, maxDisruptable) ==
    IF min >= max THEN max
    ELSE LET d == IF (current - desired) > maxDisruptable
                  THEN current - maxDisruptable
                  ELSE desired
         IN  IF d < min THEN min ELSE d

\* mutant: the scale-down step is not capped by maxDisruptable
convertNoDisruptionCap(current, desired, min, max, maxDisruptable) ==
    IF min >= max THEN max
    ELSE IF desired > max THEN max
    ELSE IF desired < min THEN min
    ELSE desired

\* mutant: the lower bound is not enforced
convertNoLowerBound(current, desired, min, max, maxDisruptable) ==
    IF min >= max THEN max
    ELSE LET d == IF (current - desired) > maxDisruptable
                  THEN current - maxDisruptable
                  ELSE desired
         IN  IF d > max THEN max ELSE d

\* mutant: min >= max is not pinned to max
convertNoPin(current, desired, min, max, maxDisruptable) ==
    LET d == IF (current - desired) > maxDisruptable
             THEN current - maxDisruptable
             ELSE desired
    IN  IF d > max THEN max
        ELSE IF d < min THEN min
        ELSE d

\* mutant: only the disruption rule is applied, min and max are ignored
convertNoBounds(current, desired, min, max, maxDisruptable) ==
    IF (current - desired) > maxDisruptable
    THEN current - maxDisruptable
    ELSE desired

convertDesiredReplicasWithRules(current, desired, min, max, maxDisruptable) ==
    IF min >= max THEN max
    ELSE LET d == IF (current - desired) > maxDisruptable
                  THEN current - maxDisruptable
                  ELSE desired
         IN  IF d > max THEN max
             ELSE IF d < min THEN min
             ELSE d

(***************************************************************************)
(* GetDesiredWorkers, for a maxDisruption that getMaxDisruptableWorkers    *)
(* accepts (otherwise the process has exited before any branch is taken).  *)
(***************************************************************************)
\* mutant: the backlog branch passes current as the disruption bound
GetDesiredWorkersBacklogUncapped(qMsgs, sentPerMinute, secPerJob, target, current, idle, minArg, max, maxDisruptionArg) ==
    LET min == getMinWorkers(sentPerMinute, minArg, secPerJob)
        maxDisruptableWorkers ==
            getMaxDisruptableWorkers(maxDisruptionArg, current).value
        desired == Ceil(qMsgs, target)
    IN  IF current = 0
        THEN convertDesiredReplicasWithRules(
                 current, desired, min, max, maxDisruptableWorkers)
        ELSE IF qMsgs > 0
        THEN IF isChangeTooSmall(desired, current)
             THEN convertDesiredReplicasWithRules(
                      current, current, min, max, maxDisruptableWorkers)
             ELSE convertDesiredReplicasWithRules(
                      current, desired, min, max, current)
        ELSE IF sentPerMinute > 0 /\ secPerJob > 0
        THEN convertDesiredReplicasWithRules(
                 current, min, min, max, maxDisruptableWorkers)
        ELSE IF current = idle
        THEN convertDesiredReplicasWithRules(current, 0, min, max, current)
        ELSE convertDesiredReplicasWithRules(
                 current, min, min, max, maxDisruptableWorkers)

\* mutant: the all-idle branch keeps the disruption bound
GetDesiredWorkersMassiveCapped(qMsgs, sentPerMinute, secPerJob, target, current, idle, minArg, max, maxDisruptionArg) ==
    LET min == getMinWorkers(sentPerMinute, minArg, secPerJob)
        maxDisruptableWorkers ==
            getMaxDisruptableWorkers(maxDisruptionArg, current).value
        desired == Ceil(qMsgs, target)
    IN  IF current = 0
        THEN convertDesiredReplicasWithRules(
                 current, desired, min, max, maxDisruptableWorkers)
        ELSE IF qMsgs > 0
        THEN IF isChangeTooSmall(desired, current)
             THEN convertDesiredReplicasWithRules(
                      current, current, min, max, maxDisruptableWorkers)
             ELSE convertDesiredReplicasWithRules(
                      current, desired, min, max, maxDisruptableWorkers)
        ELSE IF sentPerMinute > 0 /\ secPerJob > 0
        THEN convertDesiredReplicasWithRules(
                 current, min, min, max, maxDisruptableWorkers)
        ELSE IF current = idle
        THEN convertDesiredReplicasWithRules(
                 current, 0, min, max, maxDisruptableWorkers)
        ELSE convertDesiredReplicasWithRules(
                 current, min, min, max, maxDisruptableWorkers)

\* mutant: the velocity branch does not test secondsToProcessOneJob
GetDesiredWorkersRateOnly(qMsgs, sentPerMinute, secPerJob, target, current, idle, minArg, max, maxDisruptionArg) ==
    LET min == getMinWorkers(sentPerMinute, minArg, secPerJob)
        maxDisruptableWorkers ==
            getMaxDisruptableWorkers(maxDisruptionArg, current).value
        desired == Ceil(qMsgs, target)
    IN  IF current = 0
        THEN convertDesiredReplicasWithRules(
                 current, desired, min, max, maxDisruptableWorkers)
        ELSE IF qMsgs > 0
        THEN IF isChangeTooSmall(desired, current)
             THEN convertDesiredReplicasWithRules(
                      current, current, min, max, maxDisruptableWorkers)
             ELSE convertDesiredReplicasWithRules(
                      current, desired, min, max, maxDisruptableWorkers)
        ELSE IF sentPerMinute > 0
        THEN convertDesiredReplicasWithRules(
                 current, min, min, max, maxDisruptableWorkers)
        ELSE IF current = idle
        THEN convertDesiredReplicasWithRules(current, 0, min, max, current)
        ELSE convertDesiredReplicasWithRules(
                 current, min, min, max, maxDisruptableWorkers)

\* mutant: inside the stability band the bounding rules are given the
\* backlog-derived count
GetDesiredWorkersBandRaw(qMsgs, sentPerMinute, secPerJob, target, current, idle, minArg, max, maxDisruptionArg) ==
    LET min == getMinWorkers(sentPerMinute, minArg, secPerJob)
        maxDisruptableWorkers ==
            getMaxDisruptableWorkers(maxDisruptionArg, current).value
        desired == Ceil(qMsgs, target)
    IN  IF current = 0
        THEN convertDesiredReplicasWithRules(
                 current, desired, min, max, maxDisruptableWorkers)
        ELSE IF qMsgs > 0
        THEN IF isChangeTooSmall(desired, current)
             THEN convertDesiredReplicasWithRules(
                      current, desired, min, max, maxDisruptableWorkers)
             ELSE convertDesiredReplicasWithRules(
                      current, desired, min, max, maxDisruptableWorkers)
        ELSE IF sentPerMinute > 0 /\ secPerJob > 0
        THEN convertDesiredReplicasWithRules(
                 current, min, min, max, maxDisruptableWorkers)
        ELSE IF current = idle
        THEN convertDesiredReplicasWithRules(current, 0, min, max, current)
        ELSE convertDesiredReplicasWithRules(
                 current, min, min, max, maxDisruptableWorkers)

GetDesiredWorkers(qMsgs, sentPerMinute, secPerJob, target, current, idle, minArg, max, maxDisruptionArg) ==
    LET min == getMinWorkers(sentPerMinute, minArg, secPerJob)
        maxDisruptableWorkers ==
            getMaxDisruptableWorkers(maxDisruptionArg, current).value
        desired == Ceil(qMsgs, target)
    IN  IF current = 0
        THEN convertDesiredReplicasWithRules(
                 current, desired, min, max, maxDisruptableWorkers)
        ELSE IF qMsgs > 0
        THEN IF isChangeTooSmall(desired, current)
             THEN convertDesiredReplicasWithRules(
                      current, current, min, max, maxDisruptableWorkers)
             ELSE convertDesiredReplicasWithRules(
                      current, desired, min, max, maxDisruptableWorkers)
        ELSE IF sentPerMinute > 0 /\ secPerJob > 0
        THEN convertDesiredReplicasWithRules(
                 current, min, min, max, maxDisruptableWorkers)
        ELSE IF current = idle
        THEN convertDesiredReplicasWithRules(current, 0, min, max, current)
        ELSE convertDesiredReplicasWithRules(
                 current, min, min, max, maxDisruptableWorkers)

(***************************************************************************)
(*                     Part II: the controller                             *)
(***************************************************************************)
\* threadiness: "Launch two workers to process WorkerPodAutoScaler resources"
threadiness == 2
\* c.scaleDownDelay, in ticks of the clock
scaleDownDelay == 2
\* retry.DefaultRetry.Steps: attempts of retry.RetryOnConflict
RetrySteps == 5
\* queue.UnsyncedQueueMessageCount
UnsyncedQueueMessageCount == -1

\* bounds
MaxTime == 2
MaxEvents == 3

Keys == {"default/wpa"}
\* the queue providers (pkg/queue: SqsQueueService, BeanstalkQueueService)
QueueServices == {"sqs", "beanstalkd"}
WorkerIds == 1..threadiness

WokerPodAutoScalerEventAdd == "add"
WokerPodAutoScalerEventUpdate == "update"
WokerPodAutoScalerEventDelete == "delete"
EventNames == {WokerPodAutoScalerEventAdd, WokerPodAutoScalerEventUpdate,
               WokerPodAutoScalerEventDelete}

\* WokerPodAutoScalerEvent{key, name}
WokerPodAutoScalerEvent(k, n) == [key |-> k, name |-> n]

ScaleUp == "ScaleUp"
ScaleDown == "ScaleDown"
ScaleNoop == "ScaleNoop"

\* WorkerPodAutoScalerStatus of a policy that was never reconciled
EmptyStatus ==
    [CurrentMessages |-> 0, CurrentReplicas |-> 0, AvailableReplicas |-> 0,
     DesiredReplicas |-> 0, LastScaleTime |-> NoTime]

\* WorkerPodAutoScalerSpec: the policies a user may declare
GoodSpec ==
    [MinReplicas |-> 0, MaxReplicas |-> 2,
     MaxDisruption |-> <<"1">>, QueueServiceName |-> "sqs",
     DeploymentName |-> "workers", ReplicaSetName |-> "",
     TargetMessagesPerWorker |-> 1, SecondsToProcessOneJob |-> 0]

PolicySpecs ==
    { GoodSpec,
      [GoodSpec EXCEPT !.DeploymentName = ""],
      [GoodSpec EXCEPT !.QueueServiceName = "unknown"],
      [GoodSpec EXCEPT !.MaxDisruption = <<"x">>] }

\* a policy that names a ReplicaSet instead of a Deployment
ReplicaSetSpec ==
    [GoodSpec EXCEPT !.DeploymentName = "", !.ReplicaSetName = "workers"]

\* the kinds of workload a policy can name
WorkloadKinds == {"Deployment", "ReplicaSet"}

\* the kind of workload syncHandler reads and updates for a policy: the
\* Deployment if deploymentName is set, otherwise the ReplicaSet
TargetKind(spec) ==
    IF spec.DeploymentName # "" THEN "Deployment" ELSE "ReplicaSet"

\* mutant: the workload is taken whatever its kind
listerGetAnyKind(spec, wl) == wl

\* deploymentLister / replicaSetLister (and the typed clients): the workload
\* wl of the policy's namespace, if it is of the kind the policy names
listerGet(spec, wl) ==
    IF wl # NIL /\ wl.kind = TargetKind(spec) THEN wl ELSE NIL

\* c.defaultMaxDisruption
defaultMaxDisruption == <<"1", "0", "0", "%">>

\* WorkerPodAutoScaler.GetMaxDisruption(defaultDisruption)
GetMaxDisruption(spec) ==
    IF spec.MaxDisruption = NULL THEN defaultMaxDisruption
    ELSE spec.MaxDisruption

\* a worker that is blocked in workqueue.Get
IdleWorker ==
    [pc |-> "get", item |-> NIL, policy |-> NIL, current |-> 0,
     available |-> 0, qMsgs |-> 0, desired |-> 0, op |-> ScaleNoop,
     lastScaleTime |-> NoTime, attempt |-> 0, err |-> FALSE]

(***************************************************************************)
(* The rate limited work queue (client-go workqueue), by its operations.   *)
(***************************************************************************)
\* mutant: Add queues the item even while it is being processed
wqAddWhileProcessing(q, d, item) ==
    IF shuttingDown \/ item \in d THEN <<q, d>>
    ELSE <<Append(q, item), d \cup {item}>>

\* workqueue.Add(item): the resulting <<queue, dirty>>
wqAdd(q, d, item) ==
    IF shuttingDown \/ item \in d THEN <<q, d>>
    ELSE <<IF item \in processing THEN q ELSE Append(q, item),
           d \cup {item}>>

\* workqueue.Done(item): the resulting <<queue, processing>>
wqDone(q, d, item) ==
    <<IF item \in d THEN Append(q, item) ELSE q, processing \ {item}>>

(***************************************************************************)
(* The scale operation and the status comparison.                          *)
(***************************************************************************)
\* GetScaleOperation(queueName, desired, current, lastScaleTime, delay)
GetScaleOperation(desired, current, lastScaleTime, delay, t) ==
    IF desired > current THEN ScaleUp
    ELSE IF desired = current THEN ScaleNoop
    ELSE IF lastScaleTime = NoTime \/ t - lastScaleTime[1] >= delay
         THEN ScaleDown
    ELSE ScaleNoop

\* mutant: the status is never found up to date
StatusNeverUpToDate(status, desired, current, available, qMsgs, lastScaleTime) ==
    FALSE

\* the comparison that opens updateWorkerPodAutoScalerStatus
StatusUpToDate(status, desired, current, available, qMsgs, lastScaleTime) ==
    /\ status.CurrentReplicas = current
    /\ status.AvailableReplicas = available
    /\ status.DesiredReplicas = desired
    /\ status.CurrentMessages = qMsgs
    /\ status.LastScaleTime = lastScaleTime

\* history of the workload updates of a key: the time of the last update
\* (scaleAt) and, for the last replica-lowering update, its time (downAt) and
\* its distance to the update before it (sinceScale) and to the
\* replica-lowering update before it (sinceDown)
NoActuation ==
    [scaleAt |-> NoTime, downAt |-> NoTime, sinceScale |-> NoTime,
     sinceDown |-> NoTime]

(***************************************************************************)
(* Initial state: the controller has started, nothing exists yet but the   *)
(* workloads.                                                              *)
(***************************************************************************)
DecisionIdle ==
    /\ queueMessages = 0 /\ messagesSentPerMinute = 0
    /\ secondsToProcessOneJob = 0 /\ targetMessagesPerWorker = 1
    /\ currentWorkers = 0 /\ idleWorkers = 0 /\ minWorkers = 0
    /\ maxWorkers = 0 /\ maxDisruption = NULL /\ desiredWorkers = 0
    /\ phase = "idle"

\* the controller has started while the policies in `existing` were declared:
\* the initial list of the policy informer has filled the cache and called
\* AddFunc (enqueueAddWorkerPodAutoScaler) for each of them
ControllerStartedOn(existing, kinds) ==
    /\ apiPolicy = existing
    /\ cachePolicy = existing
    /\ \E q \in [1..Cardinality({k \in Keys : existing[k] # NIL}) ->
                  {WokerPodAutoScalerEvent(k, WokerPodAutoScalerEventAdd) :
                       k \in {k \in Keys : existing[k] # NIL}}] :
          /\ \A i, j \in DOMAIN q : i # j => q[i] # q[j]
          /\ queue = q
          /\ dirty = {q[i] : i \in DOMAIN q}
    /\ processing = {}
    /\ waitingForAdd = {} /\ limiter = {} /\ shuttingDown = FALSE
    /\ workers = [w \in WorkerIds |-> IdleWorker]
    /\ \E kind \in kinds :
          /\ apiWorkload = [k \in Keys |-> [kind |-> kind, replicas |-> 2,
                                            available |-> 2]]
          /\ cacheWorkload = [k \in Keys |-> [kind |-> kind, replicas |-> 2,
                                              available |-> 2,
                                              stale |-> FALSE]]
    /\ registry = [k \in Keys |-> NIL]
    /\ now = 0 /\ crashed = FALSE /\ events = 0
    /\ actuations = [k \in Keys |-> NoActuation]

\* the workloads of the cluster are Deployments
ControllerStarted(existing) == ControllerStartedOn(existing, {"Deployment"})

ControllerIdle == ControllerStarted([k \in Keys |-> NIL])

\* the controller starts in a cluster without policies
Init == DecisionIdle /\ ControllerIdle

\* the controller starts in a cluster in which every key has a policy
InitStarted ==
    /\ DecisionIdle
    /\ ControllerStarted([k \in Keys |-> [spec |-> GoodSpec,
                                          status |-> EmptyStatus]])

(***************************************************************************)
(* The environment: the user, the cluster and the queue poller.  Its       *)
(* events are counted, and at most MaxEvents of them happen.               *)
(***************************************************************************)
Running == ~crashed

MayHappen == Running /\ events < MaxEvents

\* the user declares a policy
CreatePolicy(k, s) ==
    /\ MayHappen
    /\ apiPolicy[k] = NIL
    /\ apiPolicy' = [apiPolicy EXCEPT
                        ![k] = [spec |-> s, status |-> EmptyStatus]]
    /\ events' = events + 1
    /\ UNCHANGED <<decisionVars, wqVars, workers, cachePolicy, apiWorkload,
                   cacheWorkload, registry, now, crashed, actuations>>

\* the user deletes a policy
DeletePolicy(k) ==
    /\ MayHappen
    /\ apiPolicy[k] # NIL
    /\ apiPolicy' = [apiPolicy EXCEPT ![k] = NIL]
    /\ events' = events + 1
    /\ UNCHANGED <<decisionVars, wqVars, workers, cachePolicy, apiWorkload,
                   cacheWorkload, registry, now, crashed, actuations>>

\* the user deletes the workload of a policy
DeleteWorkload(k) ==
    /\ MayHappen
    /\ apiWorkload[k] # NIL
    /\ apiWorkload' = [apiWorkload EXCEPT ![k] = NIL]
    /\ cacheWorkload' = [cacheWorkload EXCEPT
           ![k] = IF @ = NIL THEN @ ELSE [@ EXCEPT !.stale = TRUE]]
    /\ events' = events + 1
    /\ UNCHANGED <<decisionVars, wqVars, workers, apiPolicy, cachePolicy,
                   registry, now, crashed, actuations>>

\* the workload informer brings its cache up to date (no event handler)
InformerWorkload(k) ==
    /\ Running
    /\ LET fresh == IF apiWorkload[k] = NIL THEN NIL
                    ELSE [kind |-> apiWorkload[k].kind,
                          replicas |-> apiWorkload[k].replicas,
                          available |-> apiWorkload[k].available,
                          stale |-> FALSE]
       IN  /\ cacheWorkload[k] # fresh
           /\ cacheWorkload' = [cacheWorkload EXCEPT ![k] = fresh]
    /\ UNCHANGED <<decisionVars, wqVars, workers, apiPolicy, cachePolicy,
                   apiWorkload, registry, now, crashed, events, actuations>>

\* the policy informer delivers a change: the cache is replaced and the
\* handler registered in NewController enqueues the event
\* (enqueueAdd / enqueueUpdate / enqueueDeleteWorkerPodAutoScaler)
InformerPolicy(k) ==
    /\ Running
    /\ cachePolicy[k] # apiPolicy[k]
    /\ cachePolicy' = [cachePolicy EXCEPT ![k] = apiPolicy[k]]
    /\ LET name == IF cachePolicy[k] = NIL THEN WokerPodAutoScalerEventAdd
                   ELSE IF apiPolicy[k] = NIL
                        THEN WokerPodAutoScalerEventDelete
                        ELSE WokerPodAutoScalerEventUpdate
           r == wqAdd(queue, dirty, WokerPodAutoScalerEvent(k, name))
       IN  queue' = r[1] /\ dirty' = r[2]
    /\ UNCHANGED <<decisionVars, processing, waitingForAdd, limiter,
                   shuttingDown, workers, apiPolicy, apiWorkload,
                   cacheWorkload, registry, now, crashed, events,
                   actuations>>

\* the periodic resync of the policy informer: UpdateFunc for a cached object
Resync(k) ==
    /\ MayHappen
    /\ cachePolicy[k] # NIL
    /\ LET r == wqAdd(queue, dirty,
                      WokerPodAutoScalerEvent(k, WokerPodAutoScalerEventUpdate))
       IN  queue' = r[1] /\ dirty' = r[2]
    /\ events' = events + 1
    /\ UNCHANGED <<decisionVars, processing, waitingForAdd, limiter,
                   shuttingDown, workers, clusterVars, registry, now,
                   crashed, actuations>>

\* the poller of a key publishes an observation into the registry
Poll(k, m) ==
    /\ MayHappen
    /\ registry[k] # NIL
    /\ registry[k].messages # m
    /\ registry' = [registry EXCEPT ![k].messages = m]
    /\ events' = events + 1
    /\ UNCHANGED <<decisionVars, wqVars, workers, clusterVars, now, crashed,
                   actuations>>

\* time passes
Tick ==
    /\ Running
    /\ now < MaxTime
    /\ now' = now + 1
    /\ UNCHANGED <<decisionVars, wqVars, workers, clusterVars, registry,
                   crashed, events, actuations>>

\* the stop channel is closed: Run returns through workqueue.ShutDown()
Stop ==
    /\ MayHappen
    /\ ~shuttingDown
    /\ shuttingDown' = TRUE
    /\ events' = events + 1
    /\ UNCHANGED <<decisionVars, queue, dirty, processing, waitingForAdd,
                   limiter, workers, clusterVars, registry, now, crashed,
                   actuations>>

\* the delay of AddRateLimited is over: the item is added
DelayedAdd(item) ==
    /\ Running
    /\ item \in waitingForAdd
    /\ waitingForAdd' = waitingForAdd \ {item}
    /\ LET r == wqAdd(queue, dirty, item)
       IN  queue' = r[1] /\ dirty' = r[2]
    /\ UNCHANGED <<decisionVars, processing, limiter, shuttingDown, workers,
                   clusterVars, registry, now, crashed, events, actuations>>

(***************************************************************************)
(* The reconciler workers: runWorker / processNextWorkItem / syncHandler.  *)
(* A worker takes one step per access to the caches, the registry or the   *)
(* cluster API; the return of syncHandler and the queue calls that follow  *)
(* it in processNextWorkItem belong to the step that returns.              *)
(***************************************************************************)
\* mutant: processNextWorkItem returns without the deferred Done
ReturnWithoutDone(w, failed) ==
    LET item == workers[w].item
    IN  /\ limiter' = IF failed THEN limiter \cup {item}
                      ELSE limiter \ {item}
        /\ waitingForAdd' = IF failed /\ ~shuttingDown
                            THEN waitingForAdd \cup {item}
                            ELSE waitingForAdd
        /\ workers' = [workers EXCEPT ![w] = IdleWorker]
        /\ UNCHANGED <<queue, processing, dirty, shuttingDown>>

\* mutant: the item is re-queued with backoff whatever syncHandler returned
ReturnAlwaysRequeue(w, failed) ==
    LET item == workers[w].item
        r == wqDone(queue, dirty, item)
    IN  /\ queue' = r[1]
        /\ processing' = r[2]
        /\ limiter' = limiter \cup {item}
        /\ waitingForAdd' = IF ~shuttingDown
                            THEN waitingForAdd \cup {item}
                            ELSE waitingForAdd
        /\ workers' = [workers EXCEPT ![w] = IdleWorker]
        /\ UNCHANGED <<dirty, shuttingDown>>

\* processNextWorkItem after syncHandler returned: AddRateLimited on an
\* error, Forget otherwise, then the deferred workqueue.Done
Return(w, failed) ==
    LET item == workers[w].item
        r == wqDone(queue, dirty, item)
    IN  /\ queue' = r[1]
        /\ processing' = r[2]
        /\ limiter' = IF failed THEN limiter \cup {item}
                      ELSE limiter \ {item}
        /\ waitingForAdd' = IF failed /\ ~shuttingDown
                            THEN waitingForAdd \cup {item}
                            ELSE waitingForAdd
        /\ workers' = [workers EXCEPT ![w] = IdleWorker]
        /\ UNCHANGED <<dirty, shuttingDown>>

\* syncHandler goes on: worker w becomes rec
Continue(w, rec) ==
    /\ workers' = [workers EXCEPT ![w] = rec]
    /\ UNCHANGED wqVars

\* processNextWorkItem: workqueue.Get hands the head of the queue out
Get(w) ==
    /\ Running
    /\ workers[w].pc = "get"
    /\ queue # <<>>
    /\ queue' = Tail(queue)
    /\ processing' = processing \cup {Head(queue)}
    /\ dirty' = dirty \ {Head(queue)}
    /\ workers' = [workers EXCEPT ![w].pc = "sync", ![w].item = Head(queue)]
    /\ UNCHANGED <<decisionVars, waitingForAdd, limiter, shuttingDown,
                   clusterVars, registry, now, crashed, events, actuations>>

\* mutant: the worker that is told of the shutdown stays in its loop
GetShutdownStays(w) ==
    /\ Running
    /\ workers[w].pc = "get"
    /\ queue = <<>>
    /\ shuttingDown
    /\ UNCHANGED vars

\* processNextWorkItem: workqueue.Get reports shutdown, runWorker ends
GetShutdown(w) ==
    /\ Running
    /\ workers[w].pc = "get"
    /\ queue = <<>>
    /\ shuttingDown
    /\ workers' = [workers EXCEPT ![w].pc = "exited"]
    /\ UNCHANGED <<decisionVars, wqVars, clusterVars, registry, now, crashed,
                   events, actuations>>

\* mutant: a workload that is not in the cache is passed over in silence
SyncLookupMissingAbsorbed(w) ==
    /\ Running
    /\ workers[w].pc = "sync"
    /\ LET k  == workers[w].item.key
           p  == cachePolicy[k]
           wl == IF p = NIL THEN NIL ELSE listerGet(p.spec, cacheWorkload[k])
       IN  IF p = NIL
           THEN Continue(w, [workers[w] EXCEPT !.pc = "notfound"])
           ELSE IF wl = NIL
           THEN Return(w, FALSE)
           ELSE Continue(w, [workers[w] EXCEPT
                                !.pc = "registry", !.policy = p,
                                !.current = wl.replicas,
                                !.available = wl.available])
    /\ UNCHANGED <<decisionVars, clusterVars, registry, now, crashed, events,
                   actuations>>

\* syncHandler: the policy and its workload are read from the caches
SyncLookup(w) ==
    /\ Running
    /\ workers[w].pc = "sync"
    /\ LET k  == workers[w].item.key
           p  == cachePolicy[k]
           wl == IF p = NIL THEN NIL ELSE listerGet(p.spec, cacheWorkload[k])
       IN  IF p = NIL
           THEN Continue(w, [workers[w] EXCEPT !.pc = "notfound"])
           ELSE IF p.spec.DeploymentName = "" /\ p.spec.ReplicaSetName = ""
           THEN Return(w, FALSE)
           ELSE IF wl = NIL
           THEN Return(w, TRUE)
           ELSE Continue(w, [workers[w] EXCEPT
                                !.pc = "registry", !.policy = p,
                                !.current = wl.replicas,
                                !.available = wl.available])
    /\ UNCHANGED <<decisionVars, clusterVars, registry, now, crashed, events,
                   actuations>>

\* mutant: the policy no longer exists, and the lister error is returned
SyncNotFoundRequeue(w) ==
    /\ Running
    /\ workers[w].pc = "notfound"
    /\ registry' = [registry EXCEPT ![workers[w].item.key] = NIL]
    /\ Return(w, TRUE)
    /\ UNCHANGED <<decisionVars, clusterVars, now, crashed, events,
                   actuations>>

\* syncHandler: the policy no longer exists, c.Queues.Delete and return nil
SyncNotFound(w) ==
    /\ Running
    /\ workers[w].pc = "notfound"
    /\ registry' = [registry EXCEPT ![workers[w].item.key] = NIL]
    /\ Return(w, FALSE)
    /\ UNCHANGED <<decisionVars, clusterVars, now, crashed, events,
                   actuations>>

\* Queues.Add: an existing record with the same parameters is kept,
\* otherwise a new record, not yet polled, replaces it
QueuesAdd(rec, current) ==
    IF rec # NIL /\ rec.workers = current THEN rec
    ELSE [messages |-> UnsyncedQueueMessageCount, idleWorkers |-> 0,
          messagesSentPerMinute |-> 0, workers |-> current]

\* syncHandler: switch event.name, c.Queues.Add or c.Queues.Delete
SyncRegistry(w) ==
    /\ Running
    /\ workers[w].pc = "registry"
    /\ LET k    == workers[w].item.key
           name == workers[w].item.name
           spec == workers[w].policy.spec
       IN  IF name = WokerPodAutoScalerEventDelete
           THEN /\ registry' = [registry EXCEPT ![k] = NIL]
                /\ Continue(w, [workers[w] EXCEPT !.pc = "queueinfo"])
           ELSE IF spec.QueueServiceName \notin QueueServices
           THEN /\ Return(w, TRUE)
                /\ UNCHANGED registry
           ELSE /\ registry' = [registry EXCEPT
                       ![k] = QueuesAdd(@, workers[w].current)]
                /\ Continue(w, [workers[w] EXCEPT !.pc = "queueinfo"])
    /\ UNCHANGED <<decisionVars, clusterVars, now, crashed, events,
                   actuations>>

\* mutant: the time of the last scaling is not read from the status
lastScaleTimeNil(policy) == NoTime

\* lastScaleTime := workerPodAutoScaler.Status.LastScaleTime.DeepCopy()
lastScaleTimeOf(policy) == policy.status.LastScaleTime

\* syncHandler: c.Queues.GetQueueInfo, GetDesiredWorkers, GetScaleOperation
SyncQueueInfo(w) ==
    /\ Running
    /\ workers[w].pc = "queueinfo"
    /\ LET k    == workers[w].item.key
           rec  == registry[k]
           spec == workers[w].policy.spec
           md   == GetMaxDisruption(spec)
           cur  == workers[w].current
       IN  IF rec = NIL \/ rec.messages = UnsyncedQueueMessageCount
           THEN /\ Return(w, FALSE)
                /\ UNCHANGED crashed
           ELSE IF getMaxDisruptableWorkers(md, cur).err
           THEN /\ crashed' = TRUE
                /\ workers' = [workers EXCEPT ![w].pc = "fatal"]
                /\ UNCHANGED wqVars
           ELSE LET d  == GetDesiredWorkers(
                              rec.messages, rec.messagesSentPerMinute,
                              spec.SecondsToProcessOneJob,
                              spec.TargetMessagesPerWorker, cur,
                              rec.idleWorkers, spec.MinReplicas,
                              spec.MaxReplicas, md)
                    last == lastScaleTimeOf(workers[w].policy)
                    op == GetScaleOperation(d, cur, last, scaleDownDelay, now)
                IN  /\ Continue(w, [workers[w] EXCEPT
                           !.qMsgs = rec.messages,
                           !.desired = d,
                           !.op = op,
                           !.lastScaleTime = last,
                           !.pc = IF op \in {ScaleUp, ScaleDown}
                                  THEN "scale" ELSE "status"])
                    /\ UNCHANGED crashed
    /\ UNCHANGED <<decisionVars, clusterVars, registry, now, events,
                   actuations>>

\* the history after a workload update by operation op at time t
Actuated(h, op, t) ==
    IF op = ScaleDown
    THEN [scaleAt |-> <<t>>, downAt |-> <<t>>,
          sinceScale |-> IF h.scaleAt = NoTime THEN NoTime
                         ELSE <<t - h.scaleAt[1]>>,
          sinceDown |-> IF h.downAt = NoTime THEN NoTime
                        ELSE <<t - h.downAt[1]>>]
    ELSE [h EXCEPT !.scaleAt = <<t>>]

\* mutant: a conflict is retried without a limit
SyncScaleRetryForever(w) ==
    /\ Running
    /\ workers[w].pc = "scale"
    /\ LET k  == workers[w].item.key
           wl == listerGet(workers[w].policy.spec, cacheWorkload[k])
           d  == workers[w].desired
       IN  IF wl = NIL
           THEN /\ crashed' = TRUE
                /\ workers' = [workers EXCEPT ![w].pc = "fatal"]
                /\ UNCHANGED <<apiWorkload, cacheWorkload, actuations>>
           ELSE IF listerGet(workers[w].policy.spec, apiWorkload[k]) = NIL
           THEN /\ crashed' = TRUE
                /\ workers' = [workers EXCEPT ![w].pc = "fatal"]
                /\ cacheWorkload' = [cacheWorkload EXCEPT ![k].replicas = d]
                /\ UNCHANGED <<apiWorkload, actuations>>
           ELSE IF wl.stale
           THEN /\ cacheWorkload' = [cacheWorkload EXCEPT ![k].replicas = d]
                /\ workers' = [workers EXCEPT ![w].attempt = @ + 1]
                /\ UNCHANGED crashed
                /\ UNCHANGED <<apiWorkload, actuations>>
           ELSE /\ cacheWorkload' = [cacheWorkload EXCEPT
                       ![k].replicas = d, ![k].stale = TRUE]
                /\ apiWorkload' = [apiWorkload EXCEPT ![k].replicas = d]
                /\ actuations' = [actuations EXCEPT
                       ![k] = Actuated(@, workers[w].op, now)]
                /\ workers' = [workers EXCEPT ![w].pc = "status",
                                              ![w].attempt = 0,
                                              ![w].lastScaleTime = <<now>>]
                /\ UNCHANGED crashed
    /\ UNCHANGED <<decisionVars, wqVars, apiPolicy, cachePolicy, registry,
                   now, events>>

\* updateDeployment / updateReplicaSet: one attempt of retry.RetryOnConflict.
\* The object returned by the lister is the cached one, and its replicas are
\* set before the Update call.  Any error but a conflict, and the last
\* conflict, end in klog.Fatalf.
SyncScale(w) ==
    /\ Running
    /\ workers[w].pc = "scale"
    /\ LET k  == workers[w].item.key
           wl == listerGet(workers[w].policy.spec, cacheWorkload[k])
           d  == workers[w].desired
       IN  IF wl = NIL
           THEN /\ crashed' = TRUE
                /\ workers' = [workers EXCEPT ![w].pc = "fatal"]
                /\ UNCHANGED <<apiWorkload, cacheWorkload, actuations>>
           ELSE IF listerGet(workers[w].policy.spec, apiWorkload[k]) = NIL
           THEN /\ crashed' = TRUE
                /\ workers' = [workers EXCEPT ![w].pc = "fatal"]
                /\ cacheWorkload' = [cacheWorkload EXCEPT ![k].replicas = d]
                /\ UNCHANGED <<apiWorkload, actuations>>
           ELSE IF wl.stale
           THEN /\ cacheWorkload' = [cacheWorkload EXCEPT ![k].replicas = d]
                /\ IF workers[w].attempt + 1 < RetrySteps
                   THEN /\ workers' = [workers EXCEPT ![w].attempt = @ + 1]
                        /\ UNCHANGED crashed
                   ELSE /\ crashed' = TRUE
                        /\ workers' = [workers EXCEPT ![w].pc = "fatal"]
                /\ UNCHANGED <<apiWorkload, actuations>>
           ELSE /\ cacheWorkload' = [cacheWorkload EXCEPT
                       ![k].replicas = d, ![k].stale = TRUE]
                /\ apiWorkload' = [apiWorkload EXCEPT ![k].replicas = d]
                /\ actuations' = [actuations EXCEPT
                       ![k] = Actuated(@, workers[w].op, now)]
                /\ workers' = [workers EXCEPT ![w].pc = "status",
                                              ![w].attempt = 0,
                                              ![w].lastScaleTime = <<now>>]
                /\ UNCHANGED crashed
    /\ UNCHANGED <<decisionVars, wqVars, apiPolicy, cachePolicy, registry,
                   now, events>>

\* updateDeployment / updateReplicaSet: the Update call fails with an error
\* that is no conflict
SyncScaleError(w) ==
    /\ Running
    /\ workers[w].pc = "scale"
    /\ listerGet(workers[w].policy.spec,
                 cacheWorkload[workers[w].item.key]) # NIL
    /\ cacheWorkload' = [cacheWorkload EXCEPT
           ![workers[w].item.key].replicas = workers[w].desired]
    /\ crashed' = TRUE
    /\ workers' = [workers EXCEPT ![w].pc = "fatal"]
    /\ UNCHANGED <<decisionVars, wqVars, apiPolicy, cachePolicy, apiWorkload,
                   registry, now, events, actuations>>

\* the status the reconciliation of worker w wants stored
NewStatus(w) ==
    [CurrentMessages |-> workers[w].qMsgs,
     CurrentReplicas |-> workers[w].current,
     AvailableReplicas |-> workers[w].available,
     DesiredReplicas |-> workers[w].desired,
     LastScaleTime |-> workers[w].lastScaleTime]

\* updateWorkerPodAutoScalerStatus: the stored status is compared with the
\* new values; if they are equal the function returns, otherwise it calls
\* UpdateStatus with a copy that carries the new values
SyncStatus(w) ==
    /\ Running
    /\ workers[w].pc = "status"
    /\ IF StatusUpToDate(workers[w].policy.status, workers[w].desired,
                         workers[w].current, workers[w].available,
                         workers[w].qMsgs, workers[w].lastScaleTime)
       THEN Return(w, FALSE)
       ELSE Continue(w, [workers[w] EXCEPT !.pc = "updatestatus"])
    /\ UNCHANGED <<decisionVars, clusterVars, registry, now, crashed, events,
                   actuations>>

\* updateWorkerPodAutoScalerStatus: UpdateStatus succeeds (the copy is of the
\* object the cluster holds)
SyncUpdateStatus(w) ==
    /\ Running
    /\ workers[w].pc = "updatestatus"
    /\ LET k == workers[w].item.key
       IN  /\ apiPolicy[k] = workers[w].policy
           /\ apiPolicy' = [apiPolicy EXCEPT ![k].status = NewStatus(w)]
    /\ Return(w, FALSE)
    /\ UNCHANGED <<decisionVars, cachePolicy, apiWorkload, cacheWorkload,
                   registry, now, crashed, events, actuations>>

\* updateWorkerPodAutoScalerStatus: UpdateStatus fails, the error is logged
SyncStatusError(w) ==
    /\ Running
    /\ workers[w].pc = "updatestatus"
    /\ Return(w, FALSE)
    /\ UNCHANGED <<decisionVars, clusterVars, registry, now, crashed, events,
                   actuations>>

\* the backlogs the poller may observe
PollValues == {0, 2}

\* every step but the declaration of a policy
Others ==
    \/ \E k \in Keys : DeletePolicy(k)
    \/ \E k \in Keys : DeleteWorkload(k)
    \/ \E k \in Keys : InformerWorkload(k)
    \/ \E k \in Keys : InformerPolicy(k)
    \/ \E k \in Keys : Resync(k)
    \/ \E k \in Keys, m \in PollValues : Poll(k, m)
    \/ Tick
    \/ Stop
    \/ \E k \in Keys, n \in EventNames :
          DelayedAdd(WokerPodAutoScalerEvent(k, n))
    \/ \E w \in WorkerIds : Get(w)
    \/ \E w \in WorkerIds : GetShutdown(w)
    \/ \E w \in WorkerIds : SyncLookup(w)
    \/ \E w \in WorkerIds : SyncNotFound(w)
    \/ \E w \in WorkerIds : SyncRegistry(w)
    \/ \E w \in WorkerIds : SyncQueueInfo(w)
    \/ \E w \in WorkerIds : SyncScale(w)
    \/ \E w \in WorkerIds : SyncScaleError(w)
    \/ \E w \in WorkerIds : SyncStatus(w)
    \/ \E w \in WorkerIds : SyncUpdateStatus(w)
    \/ \E w \in WorkerIds : SyncStatusError(w)

Next ==
    \/ \E k \in Keys, s \in PolicySpecs : CreatePolicy(k, s)
    \/ Others

Spec == Init /\ [][Next]_vars

SpecStarted == InitStarted /\ [][Next]_vars

\* one step of reconciler worker w (runWorker, a goroutine of its own)
WorkerStep(w) ==
    \/ Get(w)
    \/ GetShutdown(w)
    \/ SyncLookup(w)
    \/ SyncNotFound(w)
    \/ SyncRegistry(w)
    \/ SyncQueueInfo(w)
    \/ SyncScale(w)
    \/ SyncScaleError(w)
    \/ SyncStatus(w)
    \/ SyncUpdateStatus(w)
    \/ SyncStatusError(w)

\* the Go scheduler runs every goroutine that can run; calls to the API
\* server return
Fairness == \A w \in WorkerIds : WF_vars(WorkerStep(w))

SpecFair == Spec /\ Fairness

\* the controller starts in a cluster without policies whose workloads are
\* Deployments or ReplicaSets
InitKinds ==
    /\ DecisionIdle
    /\ ControllerStartedOn([k \in Keys |-> NIL], WorkloadKinds)

\* the user may also declare a policy that names a ReplicaSet
NextKinds ==
    \/ Next
    \/ \E k \in Keys : CreatePolicy(k, ReplicaSetSpec)

SpecKinds == InitKinds /\ [][NextKinds]_vars

\* policies whose bounds decide: a maximum below the replicas the workload
\* starts with, and a minimum above the maximum
BoundSpecs ==
    { [GoodSpec EXCEPT !.MaxReplicas = 1],
      [GoodSpec EXCEPT !.MinReplicas = 2, !.MaxReplicas = 1] }

\* the user declares these policies only (a policy that is not well formed
\* never gets as far as a workload update)
NextBounds ==
    \/ \E k \in Keys, s \in BoundSpecs : CreatePolicy(k, s)
    \/ Others

SpecBounds == Init /\ [][NextBounds]_vars

(***************************************************************************)
(* Inputs of SpecDecision.                                                 *)
(***************************************************************************)
CurrentValues  == (0..MaxSmall) \cup {toleranceDen}
MessageValues  == (0..MaxSmall) \cup
                  {toleranceDen - 1, toleranceDen + 1, toleranceDen + 2}
TargetValues   == 1..MaxTarget
IdleValues     == {0, MaxSmall, toleranceDen}
MinValues      == 0..MaxMin
MaxValues      == {1, MaxSmall, toleranceDen - 1, toleranceDen + 2}
SentValues     == {0, 300}          \* 0 and 30.0 messages per minute
SecondsValues  == {0, 3, 100}       \* 0, 0.3 s and 10.0 s per job
MaxDisruptionValues ==
    { <<"0">>, <<"2">>, <<"0", "%">>, <<"1", "0", "%">>,
      <<"1", "0", "0", "%">>, <<"-", "1">>, <<"x">> }

\* the literal inputs of the two unit tests of GetDesiredWorkers
TestInputs ==
    { [qMsgs |-> 10, sent |-> 100, sec |-> 3, target |-> 200, current |-> 20,
       idle |-> 0, min |-> 0, max |-> 20, md |-> <<"1", "0", "%">>],
      [qMsgs |-> 1, sent |-> 21366, sec |-> 100, target |-> 2500,
       current |-> 10, idle |-> 0, min |-> 2, max |-> 20,
       md |-> <<"0", "%">>] }

GridInputs ==
    [qMsgs : MessageValues, sent : SentValues, sec : SecondsValues,
     target : TargetValues, current : CurrentValues, idle : IdleValues,
     min : MinValues, max : MaxValues, md : MaxDisruptionValues]

InitDecision ==
    /\ \E in \in GridInputs \cup TestInputs :
          /\ queueMessages = in.qMsgs
          /\ messagesSentPerMinute = in.sent
          /\ secondsToProcessOneJob = in.sec
          /\ targetMessagesPerWorker = in.target
          /\ currentWorkers = in.current
          /\ idleWorkers = in.idle
          /\ minWorkers = in.min
          /\ maxWorkers = in.max
          /\ maxDisruption = in.md
    /\ desiredWorkers = 0
    /\ phase = "call"
    /\ ControllerIdle

inputVars == <<queueMessages, messagesSentPerMinute, secondsToProcessOneJob,
               targetMessagesPerWorker, currentWorkers, idleWorkers,
               minWorkers, maxWorkers, maxDisruption>>

\* the call returns
CallGetDesiredWorkers ==
    /\ phase = "call"
    /\ ~getMaxDisruptableWorkers(maxDisruption, currentWorkers).err
    /\ desiredWorkers' = GetDesiredWorkers(
           queueMessages, messagesSentPerMinute, secondsToProcessOneJob,
           targetMessagesPerWorker, currentWorkers, idleWorkers,
           minWorkers, maxWorkers, maxDisruption)
    /\ phase' = "returned"
    /\ UNCHANGED <<inputVars, controllerVars>>

\* klog.Fatalf in getMaxDisruptableWorkers: the process exits
CallGetDesiredWorkersFatal ==
    /\ phase = "call"
    /\ getMaxDisruptableWorkers(maxDisruption, currentWorkers).err
    /\ phase' = "fatal"
    /\ UNCHANGED <<inputVars, desiredWorkers, controllerVars>>

NextDecision == CallGetDesiredWorkers \/ CallGetDesiredWorkersFatal

SpecDecision == InitDecision /\ [][NextDecision]_vars


(***************************************************************************)
(*          Properties of the decision function (SpecDecision)            *)
(*                                                                         *)
(* The quantities the properties speak about are computed here from the   *)
(* inputs, with their own arithmetic.                                      *)
(***************************************************************************)
Returned == phase = "returned"

\* ceil(secondsToProcessOneJob * messagesSentPerMinute / 60), non-negative
\* operands; the rate is held in hundredths (Tenths * Tenths)
VelocityWorkers ==
    LET den == SecondsPerMinute * Tenths * Tenths
    IN  (secondsToProcessOneJob * messagesSentPerMinute + den - 1) \div den

ComputedMin ==
    IF VelocityWorkers > minWorkers THEN VelocityWorkers ELSE minWorkers

\* ceil(queueMessages / targetMessagesPerWorker)
RawDesired ==
    (queueMessages + targetMessagesPerWorker - 1) \div targetMessagesPerWorker

MaxDisruptable == getMaxDisruptableWorkers(maxDisruption, currentWorkers).value

VelocityKnown == messagesSentPerMinute > 0 /\ secondsToProcessOneJob > 0

\* |RawDesired - currentWorkers| / currentWorkers <= 0.1
InBand ==
    /\ currentWorkers > 0
    /\ queueMessages > 0
    /\ toleranceDen * (RawDesired - currentWorkers) <= currentWorkers
    /\ toleranceDen * (currentWorkers - RawDesired) <= currentWorkers

\* the branch that bypasses maxDisruption: nothing queued, no velocity
\* signal, every worker idle
AllIdle ==
    /\ currentWorkers > 0
    /\ queueMessages = 0
    /\ ~VelocityKnown
    /\ currentWorkers = idleWorkers

\* v clamped to [lo, hi]; the upper end wins when lo > hi
Clamp(v, lo, hi) ==
    IF v > hi \/ lo > hi THEN hi ELSE IF v < lo THEN lo ELSE v

\* C1: the value GetDesiredWorkers returns lies in [minWorkers, maxWorkers]
\* when minWorkers < maxWorkers, and is maxWorkers when
\* minWorkers >= maxWorkers.
C1_Bounding ==
    Returned =>
        IF minWorkers < maxWorkers
        THEN minWorkers <= desiredWorkers /\ desiredWorkers <= maxWorkers
        ELSE desiredWorkers = maxWorkers

\* C1 witness: the backlog asks for more than maxWorkers and the result is
\* held at maxWorkers
C1_Witness ==
    /\ Returned
    /\ minWorkers < maxWorkers
    /\ currentWorkers > 0
    /\ RawDesired > maxWorkers
    /\ desiredWorkers = maxWorkers

\* C2 as stated: outside the all-idle branch a decrease never exceeds
\* maxDisruptable, for all minWorkers, maxWorkers and currentWorkers.
C2_DisruptionCapOriginal ==
    (Returned /\ ~AllIdle /\ desiredWorkers < currentWorkers)
        => currentWorkers - desiredWorkers <= MaxDisruptable

\* C2: outside the all-idle branch a decrease never exceeds maxDisruptable,
\* provided the upper bound does not force a larger one, i.e.
\* currentWorkers - maxDisruptable <= maxWorkers.
C2_DisruptionCap ==
    (/\ Returned
     /\ ~AllIdle
     /\ currentWorkers - MaxDisruptable <= maxWorkers
     /\ desiredWorkers < currentWorkers)
        => currentWorkers - desiredWorkers <= MaxDisruptable

\* C2 witness: the backlog asks for a larger decrease than maxDisruptable
\* and the decrease is exactly maxDisruptable
C2_Witness ==
    /\ Returned
    /\ ~AllIdle
    /\ currentWorkers - MaxDisruptable <= maxWorkers
    /\ MaxDisruptable > 0
    /\ currentWorkers - RawDesired > MaxDisruptable
    /\ desiredWorkers = currentWorkers - MaxDisruptable

\* C6 as stated: inside the stability band the function returns
\* currentWorkers.
C6_StabilityBandOriginal ==
    (Returned /\ InBand) => desiredWorkers = currentWorkers

\* C6: inside the stability band the function returns currentWorkers,
\* provided currentWorkers already satisfies the bounds
\* (ComputedMin <= currentWorkers <= maxWorkers) and maxDisruptable is not
\* negative.
C6_StabilityBand ==
    (/\ Returned
     /\ InBand
     /\ ComputedMin <= currentWorkers
     /\ currentWorkers <= maxWorkers
     /\ MaxDisruptable >= 0)
        => desiredWorkers = currentWorkers

\* C6 witness: the backlog asks for one worker fewer than the ten running,
\* a decrease maxDisruptable would allow, and ten is returned
C6_Witness ==
    /\ Returned
    /\ InBand
    /\ ComputedMin <= currentWorkers
    /\ currentWorkers <= maxWorkers
    /\ RawDesired < currentWorkers
    /\ MaxDisruptable >= currentWorkers - RawDesired
    /\ desiredWorkers = currentWorkers

\* C7: with an empty queue and a positive rate and a positive
\* secondsToProcessOneJob the result is at least
\* ceil(secondsToProcessOneJob * messagesSentPerMinute / 60) clamped to
\* [minWorkers, maxWorkers].
C7_VelocityFloor ==
    (Returned /\ queueMessages = 0 /\ VelocityKnown)
        => desiredWorkers >= Clamp(VelocityWorkers, minWorkers, maxWorkers)

\* C7 witness: workers are running, the velocity asks for more than
\* minWorkers and more than are running, and that number is returned
C7_Witness ==
    /\ Returned
    /\ queueMessages = 0
    /\ VelocityKnown
    /\ currentWorkers > 0
    /\ VelocityWorkers > minWorkers
    /\ VelocityWorkers > currentWorkers
    /\ VelocityWorkers < maxWorkers
    /\ desiredWorkers = VelocityWorkers

\* C8: when max(minWorkers, velocity workers) >= maxWorkers the function
\* returns maxWorkers.
C8_ComputedMinAboveMax ==
    (Returned /\ ComputedMin >= maxWorkers) => desiredWorkers = maxWorkers

\* C8 witness: TestScaleUpWhenCalculatedMinIsGreaterThanMax, where
\* minWorkers < maxWorkers and only the velocity exceeds maxWorkers
C8_Witness ==
    /\ Returned
    /\ queueMessages = 1
    /\ currentWorkers = 10
    /\ minWorkers = 2
    /\ maxWorkers = 20
    /\ VelocityWorkers > maxWorkers
    /\ desiredWorkers = 20

\* C9: with a backlog outside the stability band and
\* currentWorkers - RawDesired > maxDisruptable, the function returns
\* currentWorkers - maxDisruptable, provided ComputedMin < maxWorkers and
\* that value lies in [ComputedMin, maxWorkers].
C9_SteppedScaleDown ==
    (/\ Returned
     /\ currentWorkers > 0
     /\ queueMessages > 0
     /\ ~InBand
     /\ currentWorkers - RawDesired > MaxDisruptable
     /\ ComputedMin < maxWorkers
     /\ ComputedMin <= currentWorkers - MaxDisruptable
     /\ currentWorkers - MaxDisruptable <= maxWorkers)
        => desiredWorkers = currentWorkers - MaxDisruptable

\* C9 witness: TestScaleDownWhenQueueMessagesLessThanTarget returns 18
C9_Witness ==
    /\ Returned
    /\ queueMessages = 10
    /\ targetMessagesPerWorker = 200
    /\ currentWorkers = 20
    /\ minWorkers = 0
    /\ maxWorkers = 20
    /\ maxDisruption = <<"1", "0", "%">>
    /\ desiredWorkers = 18

\* C10: in the all-idle branch the function returns ComputedMin when
\* ComputedMin < maxWorkers, else maxWorkers, and the same value for every
\* maxDisruption the function accepts.
C10_MassiveScaleDown ==
    (Returned /\ AllIdle) =>
        /\ desiredWorkers =
               IF ComputedMin < maxWorkers THEN ComputedMin ELSE maxWorkers
        /\ \A md \in MaxDisruptionValues :
               ~getMaxDisruptableWorkers(md, currentWorkers).err
                   => GetDesiredWorkers(
                          queueMessages, messagesSentPerMinute,
                          secondsToProcessOneJob, targetMessagesPerWorker,
                          currentWorkers, idleWorkers, minWorkers,
                          maxWorkers, md) = desiredWorkers

\* C10 witness: every worker is idle and the decrease down to ComputedMin
\* is larger than maxDisruptable
C10_Witness ==
    /\ Returned
    /\ AllIdle
    /\ ComputedMin < maxWorkers
    /\ currentWorkers <= maxWorkers
    /\ desiredWorkers = ComputedMin
    /\ currentWorkers - desiredWorkers > MaxDisruptable


C12_FloorDisabled ==
    (Returned /\ secondsToProcessOneJob = 0) =>
        /\ getMinWorkers(messagesSentPerMinute, minWorkers,
                         secondsToProcessOneJob) = minWorkers
        /\ \A sent \in SentValues :
               GetDesiredWorkers(
                   queueMessages, sent, secondsToProcessOneJob,
                   targetMessagesPerWorker, currentWorkers, idleWorkers,
                   minWorkers, maxWorkers, maxDisruption) = desiredWorkers

\* C12 witness: messages are being sent, nothing is queued, every worker is
\* idle, and the fleet collapses to minWorkers past maxDisruptable as it
\* does without a rate
C12_Witness ==
    /\ Returned
    /\ secondsToProcessOneJob = 0
    /\ messagesSentPerMinute > 0
    /\ AllIdle
    /\ minWorkers < maxWorkers
    /\ currentWorkers <= maxWorkers
    /\ desiredWorkers = minWorkers
    /\ currentWorkers - desiredWorkers > MaxDisruptable

(***************************************************************************)
(*          Properties of the controller (Spec, SpecStarted)              *)
(***************************************************************************)
\* worker w is inside syncHandler
InSyncHandler(w) == workers[w].pc \notin {"get", "exited"}

\* C3: two executions of syncHandler for the same policy key never overlap.
C3_PerKeySerialisation ==
    \A w1, w2 \in WorkerIds :
        (w1 # w2 /\ InSyncHandler(w1) /\ InSyncHandler(w2))
            => workers[w1].item.key # workers[w2].item.key

\* C4: a replica-lowering workload update comes at least scaleDownDelay
\* after the replica-lowering update before it, and at least scaleDownDelay
\* after the workload update before it.
C4_Cooldown ==
    \A k \in Keys :
        /\ actuations[k].sinceDown # NoTime
               => actuations[k].sinceDown[1] >= scaleDownDelay
        /\ actuations[k].sinceScale # NoTime
               => actuations[k].sinceScale[1] >= scaleDownDelay

Starts(w, item) ==
    /\ workers[w].pc = "get"
    /\ workers'[w].pc = "sync"
    /\ workers'[w].item = item

\* C13: the reconciliation of (k, delete) never starts while a
\* reconciliation of (k, update), which left the queue before it and so was
\* enqueued before it, has not finished.
C13_EnqueueOrder ==
    [][\A w, v \in WorkerIds, k \in Keys :
          Starts(w, WokerPodAutoScalerEvent(k, WokerPodAutoScalerEventDelete))
              => ~(/\ InSyncHandler(v)
                   /\ workers[v].item =
                          WokerPodAutoScalerEvent(
                              k, WokerPodAutoScalerEventUpdate))]_vars


\* no event of key k is queued, delayed or being processed
NoEventFor(k) ==
    \A n \in EventNames :
        LET item == WokerPodAutoScalerEvent(k, n)
        IN  /\ item \notin dirty
            /\ item \notin processing
            /\ item \notin waitingForAdd
            /\ \A i \in DOMAIN queue : queue[i] # item

\* C14: while the controller runs, once a policy is deleted (in the cluster
\* and in the cache) and no event of its key is queued, delayed or being
\* processed, the registry holds no record for the key.
C14_RegistryConsistency ==
    \A k \in Keys :
        (/\ Running /\ ~shuttingDown
         /\ apiPolicy[k] = NIL /\ cachePolicy[k] = NIL
         /\ NoEventFor(k))
            => registry[k] = NIL


\* the five values worker w has computed equal the status of the policy
\* object it read from the cache
ComputedEqualsStored(w) ==
    LET st == workers[w].policy.status
    IN  /\ st.CurrentReplicas = workers[w].current
        /\ st.AvailableReplicas = workers[w].available
        /\ st.DesiredReplicas = workers[w].desired
        /\ st.CurrentMessages = workers[w].qMsgs
        /\ st.LastScaleTime = workers[w].lastScaleTime

\* C15: updateWorkerPodAutoScalerStatus returns without an UpdateStatus call
\* when the five computed values equal the stored status; otherwise it
\* issues one call, which either fails or stores exactly the five values in
\* the status of the policy; the cached policy is never modified.
C15_StatusIdempotence ==
    [][\A w \in WorkerIds :
          /\ (workers[w].pc = "status" /\ workers'[w] # workers[w])
                 => /\ apiPolicy' = apiPolicy
                    /\ cachePolicy' = cachePolicy
                    /\ workers'[w].pc = IF ComputedEqualsStored(w)
                                        THEN "get" ELSE "updatestatus"
          /\ (workers[w].pc = "updatestatus" /\ workers'[w] # workers[w])
                 => /\ workers'[w].pc = "get"
                    /\ cachePolicy' = cachePolicy
                    /\ \/ apiPolicy' = apiPolicy
                       \/ apiPolicy' =
                              [apiPolicy EXCEPT ![workers[w].item.key] =
                                  [spec |-> workers[w].policy.spec,
                                   status |->
                                       [CurrentMessages |-> workers[w].qMsgs,
                                        CurrentReplicas |->
                                            workers[w].current,
                                        AvailableReplicas |->
                                            workers[w].available,
                                        DesiredReplicas |->
                                            workers[w].desired,
                                        LastScaleTime |->
                                            workers[w].lastScaleTime]]]]_vars

\* C15 witness: a reconciliation reaches the status update with the values
\* an earlier reconciliation has stored
C15_Witness ==
    \E w \in WorkerIds :
        /\ workers[w].pc = "status"
        /\ workers[w].policy.status # EmptyStatus
        /\ ComputedEqualsStored(w)


\* worker w leaves syncHandler in this step without an error: the item is
\* forgotten (no backoff state, no delayed re-add) and marked done
Forgotten(w) ==
    /\ workers'[w] = IdleWorker
    /\ workers[w].item \notin limiter'
    /\ waitingForAdd' = waitingForAdd
    /\ processing' = processing \ {workers[w].item}

\* the step leaves the cluster alone: no workload update, no status write
NothingCommanded ==
    /\ apiWorkload' = apiWorkload
    /\ cacheWorkload' = cacheWorkload
    /\ apiPolicy' = apiPolicy
    /\ actuations' = actuations

\* C16: when the registry has no record for the key, or the record has not
\* been polled yet, the reconciliation ends at c.Queues.GetQueueInfo:
\* nothing is commanded, nothing is written, the process goes on, and the
\* item is forgotten.
C16_SkipOnMissingObservation ==
    [][\A w \in WorkerIds :
          (/\ workers[w].pc = "queueinfo"
           /\ workers'[w] # workers[w]
           /\ \/ registry[workers[w].item.key] = NIL
              \/ registry[workers[w].item.key].messages = -1)
              => /\ Forgotten(w)
                 /\ NothingCommanded
                 /\ crashed' = crashed]_vars

\* C16 witness: a policy with a workload and a known queue service has been
\* reconciled, its record is in the registry and not yet polled, no status
\* was written, and no event of the key is left
C16_Witness ==
    \E k \in Keys :
        /\ Running
        /\ cachePolicy[k] # NIL
        /\ cachePolicy[k] = apiPolicy[k]
        /\ cachePolicy[k].spec = GoodSpec
        /\ cachePolicy[k].status = EmptyStatus
        /\ registry[k] # NIL
        /\ registry[k].messages = UnsyncedQueueMessageCount
        /\ NoEventFor(k)
        /\ \A w \in WorkerIds : workers[w].pc = "get"


\* C17: for an item of any event kind whose policy is absent from the cache,
\* syncHandler looks up no workload, deletes the registry record of the key,
\* commands and writes nothing, and returns nil, so that the item is
\* forgotten.
C17_PolicyNotFoundTerminal ==
    [][\A w \in WorkerIds :
          /\ (/\ workers[w].pc = "sync"
              /\ workers'[w] # workers[w]
              /\ cachePolicy[workers[w].item.key] = NIL)
                 => /\ workers'[w] = [workers[w] EXCEPT !.pc = "notfound"]
                    /\ NothingCommanded
                    /\ <<queue, dirty, processing, waitingForAdd, limiter>>'
                           = <<queue, dirty, processing, waitingForAdd,
                               limiter>>
          /\ (workers[w].pc = "notfound" /\ workers'[w] # workers[w])
                 => /\ registry'[workers[w].item.key] = NIL
                    /\ Forgotten(w)
                    /\ NothingCommanded
                    /\ crashed' = crashed]_vars

\* C17 witness: an add or update item finds its policy gone while the
\* registry still holds the record of the key
C17_Witness ==
    \E w \in WorkerIds :
        /\ workers[w].pc = "notfound"
        /\ workers[w].item.name # WokerPodAutoScalerEventDelete
        /\ registry[workers[w].item.key] # NIL


\* the policy names neither a deployment nor a replica set
NoWorkloadReference(spec) ==
    spec.DeploymentName = "" /\ spec.ReplicaSetName = ""

\* the policy names a queue service that does not exist
UnknownQueueService(spec) == spec.QueueServiceName \notin QueueServices

\* the maxDisruption of the policy is no integer and no percentage
UnparsableMaxDisruption(spec) ==
    /\ spec.MaxDisruption # NULL
    /\ getMaxDisruptableWorkers(spec.MaxDisruption, 0).err

\* C18: the step of syncHandler that meets a missing workload reference, an
\* unknown queue service or an unparsable maxDisruption ends the
\* reconciliation with the item forgotten, and the process keeps running.
C18_MisconfigurationForgotten ==
    [][\A w \in WorkerIds :
          (/\ workers'[w] # workers[w]
           /\ \/ /\ workers[w].pc = "sync"
                 /\ cachePolicy[workers[w].item.key] # NIL
                 /\ NoWorkloadReference(cachePolicy[workers[w].item.key].spec)
              \/ /\ workers[w].pc = "registry"
                 /\ workers[w].item.name # WokerPodAutoScalerEventDelete
                 /\ UnknownQueueService(workers[w].policy.spec)
              \/ /\ workers[w].pc = "queueinfo"
                 /\ registry[workers[w].item.key] # NIL
                 /\ registry[workers[w].item.key].messages # -1
                 /\ UnparsableMaxDisruption(workers[w].policy.spec))
              => /\ crashed' = FALSE
                 /\ Forgotten(w)]_vars

\* the step of worker w ends its commanded workload update without the update
\* having been applied: workload not found, an error that is no conflict, or
\* the last conflict retry
UpdateFailed(w) ==
    /\ workers[w].pc = "scale"
    /\ workers'[w] # workers[w]
    /\ workers'[w].pc # "scale"
    /\ apiWorkload' = apiWorkload

\* C19: a failed workload update is best-effort: the failure is only logged,
\* the process keeps running and the reconciliation goes on to the status
\* update (from where it returns success and the item is forgotten).
C19_UpdateFailureBestEffort ==
    [][\A w \in WorkerIds :
          UpdateFailed(w) => /\ crashed' = FALSE
                             /\ workers'[w].pc = "status"]_vars

\* every item the queue can hold
Items == {WokerPodAutoScalerEvent(k, n) : k \in Keys, n \in EventNames}

\* item waits in the queue
Waiting(item) == \E i \in DOMAIN queue : queue[i] = item

\* worker w is processing item
Holds(w, item) == InSyncHandler(w) /\ workers[w].item = item

\* C20: the work queue deduplicates per item.  An item waits in the queue at
\* most once and adding it again leaves the queue unchanged; an item that is
\* being processed does not wait in the queue, adding it does not put it in
\* the queue, and the Done of its processing then appends it exactly once;
\* no item is processed by two workers at once.  (Adds are those the queue
\* accepts: after ShutDown it rejects them.)
C20_Deduplication ==
    /\ \A i, j \in DOMAIN queue : queue[i] = queue[j] => i = j
    /\ \A item \in Items :
          /\ Waiting(item) => wqAdd(queue, dirty, item) = <<queue, dirty>>
          /\ item \in processing =>
                /\ ~Waiting(item)
                /\ wqAdd(queue, dirty, item)[1] = queue
                /\ ~shuttingDown =>
                      wqDone(queue, wqAdd(queue, dirty, item)[2], item)[1]
                          = Append(queue, item)
          /\ \A w1, w2 \in WorkerIds :
                Holds(w1, item) /\ Holds(w2, item) => w1 = w2

\* an item was added while a worker was processing it, and the other worker
\* is free: the item is marked dirty and was not handed out
C20_Witness ==
    \E item \in Items : \E w1, w2 \in WorkerIds :
        /\ Holds(w1, item)
        /\ item \in processing
        /\ item \in dirty
        /\ workers[w2].pc = "get"
        /\ ~shuttingDown
        /\ ~crashed

\* all reconciler workers have left runWorker
AllExited == \A w \in WorkerIds : workers[w].pc = "exited"

\* a worker that left its loop holds no item, and every item marked as being
\* processed is held by a worker
NothingLeftInFlight ==
    /\ \A w \in WorkerIds :
          workers[w].pc = "exited" => shuttingDown /\ workers[w].item = NIL
    /\ \A item \in processing : \E w \in WorkerIds : Holds(w, item)

\* worker w leaves its loop only when Get reports the shutdown, and takes no
\* item afterwards
ExitsOnShutdownOnly(w) ==
    /\ workers[w].pc = "exited" => workers'[w] = workers[w]
    /\ workers[w].pc # "exited" /\ workers'[w].pc = "exited" =>
          /\ workers[w].pc = "get"
          /\ shuttingDown
          /\ queue = <<>>

\* C21: shutdown terminates the workers.  After the stop signal the queue is
\* shut down; every worker finishes the item it holds, signals Done for it,
\* is told of the shutdown by Get and leaves its loop; a worker that left
\* takes no further item.  (Termination is that of a process that keeps
\* running: an exit through klog.Fatalf ends the workers as well.)
C21_ShutdownTerminates ==
    /\ []NothingLeftInFlight
    /\ [][\A w \in WorkerIds : ExitsOnShutdownOnly(w)]_vars
    /\ (shuttingDown ~> (crashed \/ AllExited))

\* the queue is shut down, one worker has left its loop and the other is
\* finishing the item it holds
C21_Witness ==
    /\ shuttingDown
    /\ ~crashed
    /\ \E w1, w2 \in WorkerIds :
          /\ workers[w1].pc = "exited"
          /\ workers[w2].pc \in {"scale", "status", "updatestatus"}

\* the step of worker w ends processNextWorkItem
Leaves(w) == InSyncHandler(w) /\ workers'[w].pc \in {"get", "exited"}

\* worker w is about to look up a policy that is in the cache and names a
\* workload that is not
MissingWorkload(w) ==
    /\ workers[w].pc = "sync"
    /\ cachePolicy[workers[w].item.key] # NIL
    /\ ~NoWorkloadReference(cachePolicy[workers[w].item.key].spec)
    /\ listerGet(cachePolicy[workers[w].item.key].spec,
                 cacheWorkload[workers[w].item.key]) = NIL

\* syncHandler of worker w is about to return an error: the workload is not
\* in the cache, or Queues.Add refuses the queue service
SyncError(w) ==
    \/ MissingWorkload(w)
    \/ /\ workers[w].pc = "registry"
       /\ workers[w].item.name # WokerPodAutoScalerEventDelete
       /\ UnknownQueueService(workers[w].policy.spec)

\* workqueue.Done(item) was called once: the item is no longer being
\* processed and is queued again if it was added meanwhile
DoneOnce(item) ==
    /\ processing' = processing \ {item}
    /\ queue' = IF item \in dirty THEN Append(queue, item) ELSE queue
    /\ dirty' = dirty

\* workqueue.Forget(item) and no AddRateLimited
ForgetOnly(item) ==
    /\ limiter' = limiter \ {item}
    /\ waitingForAdd' = waitingForAdd

\* workqueue.AddRateLimited(item) and no Forget
RequeueOnly(item) ==
    /\ limiter' = limiter \cup {item}
    /\ waitingForAdd' = IF shuttingDown THEN waitingForAdd
                        ELSE waitingForAdd \cup {item}

\* C22: every item taken from the queue is paired with exactly one Done,
\* together with exactly one of Forget (syncHandler returned nil) and
\* AddRateLimited (syncHandler returned an error), never both, and the worker
\* goes on with its loop.  (Every item in the queue is a
\* WokerPodAutoScalerEvent, the enqueue functions add nothing else, so the
\* branch for an item of another type is not taken.)
C22_DonePairing ==
    [][\A w \in WorkerIds :
          Leaves(w) =>
              /\ workers'[w] = IdleWorker
              /\ DoneOnce(workers[w].item)
              /\ IF SyncError(w) THEN RequeueOnly(workers[w].item)
                                 ELSE ForgetOnly(workers[w].item)]_vars

\* an item was re-queued with backoff and marked done, and the workers are
\* back at Get
C22_Witness ==
    /\ \E item \in Items :
          /\ item \in limiter
          /\ item \in waitingForAdd
          /\ item \notin processing
    /\ \A w \in WorkerIds : workers[w] = IdleWorker
    /\ processing = {}
    /\ ~crashed

\* the step of worker w is the decision of syncHandler: desired count and
\* scale operation are computed
Decides(w) ==
    /\ workers[w].pc = "queueinfo"
    /\ workers'[w].pc \in {"scale", "status"}

\* the step of worker w is a workload update that the cluster accepted
Commands(w) ==
    /\ workers[w].pc = "scale"
    /\ workers'[w].pc = "status"

\* C23: syncHandler commands a workload update if and only if the scale
\* operation is ScaleUp or ScaleDown; the update goes to the Deployment when
\* deploymentName is set and otherwise to the ReplicaSet, sets the replicas
\* to the desired value and makes lastScaleTime, as passed to the status
\* writer, the present time; with ScaleNoop no update is issued and
\* lastScaleTime stays the stored one.  No workload is updated otherwise.
C23_CommandIffScale ==
    [][/\ \A w \in WorkerIds :
            LET k == workers[w].item.key
            IN  /\ Decides(w) =>
                      /\ workers'[w].pc = "scale"
                            <=> workers'[w].op \in {ScaleUp, ScaleDown}
                      /\ workers'[w].lastScaleTime
                            = workers[w].policy.status.LastScaleTime
                      /\ apiWorkload' = apiWorkload
                /\ Commands(w) =>
                      /\ workers[w].op \in {ScaleUp, ScaleDown}
                      /\ apiWorkload[k].kind
                            = TargetKind(workers[w].policy.spec)
                      /\ apiWorkload' = [apiWorkload EXCEPT
                                            ![k].replicas = workers[w].desired]
                      /\ workers'[w].lastScaleTime = <<now>>
                      /\ workers'[w].desired = workers[w].desired
                /\ workers[w].pc \in {"status", "updatestatus"} =>
                      /\ workers'[w].pc \in {"status", "updatestatus"} =>
                            workers'[w].lastScaleTime = workers[w].lastScaleTime
       /\ \A k \in Keys :
            apiWorkload'[k] # apiWorkload[k] /\ apiWorkload'[k] # NIL =>
                \E w \in WorkerIds : Commands(w) /\ workers[w].item.key = k]_vars

\* a policy that names a ReplicaSet had its ReplicaSet scaled down, and the
\* reconciliation is about to write the status with the time of the update
C23_Witness ==
    \E w \in WorkerIds :
        /\ workers[w].pc = "status"
        /\ workers[w].op = ScaleDown
        /\ workers[w].policy.spec = ReplicaSetSpec
        /\ apiWorkload[workers[w].item.key] # NIL
        /\ apiWorkload[workers[w].item.key].kind = "ReplicaSet"
        /\ apiWorkload[workers[w].item.key].replicas = workers[w].desired
        /\ workers[w].lastScaleTime = <<now>>

\* C24: a workload that is not in the cache is a retriable error that leaves
\* the state unchanged: syncHandler returns before it touches the registry,
\* commands no workload update and writes no status, and the item is marked
\* done and re-queued with backoff.
C24_MissingWorkloadRetried ==
    [][\A w \in WorkerIds :
          MissingWorkload(w) /\ workers'[w] # workers[w] =>
              /\ registry' = registry
              /\ NothingCommanded
              /\ cachePolicy' = cachePolicy
              /\ workers'[w] = IdleWorker
              /\ DoneOnce(workers[w].item)
              /\ RequeueOnly(workers[w].item)]_vars

\* the item of a policy whose workload is gone waits for its backoff to end,
\* and the registry has no record of the policy
C24_Witness ==
    \E k \in Keys : \E n \in EventNames :
        /\ cachePolicy[k] # NIL
        /\ ~NoWorkloadReference(cachePolicy[k].spec)
        /\ cacheWorkload[k] = NIL
        /\ WokerPodAutoScalerEvent(k, n) \in waitingForAdd
        /\ WokerPodAutoScalerEvent(k, n) \in limiter
        /\ WokerPodAutoScalerEvent(k, n) \notin processing
        /\ registry[k] = NIL
        /\ ~shuttingDown
        /\ ~crashed

\* worker w reconciles a delete event whose policy it found in the cache
DeleteWithPolicy(w) ==
    /\ workers[w].pc \in {"registry", "queueinfo"}
    /\ workers[w].item.name = WokerPodAutoScalerEventDelete

\* C25: the reconciliation of a delete event whose policy is still in the
\* cache calls Queues.Delete for the key and then returns: it computes no
\* desired count, commands no workload update and writes no status, whatever
\* another worker does for the same key meanwhile.
C25_DeleteReturns ==
    [][\A w \in WorkerIds :
          DeleteWithPolicy(w) /\ workers'[w] # workers[w] =>
              /\ workers[w].pc = "registry" =>
                    /\ registry'[workers[w].item.key] = NIL
                    /\ workers'[w].pc = "queueinfo"
              /\ workers[w].pc = "queueinfo" =>
                    /\ crashed' = FALSE
                    /\ Forgotten(w)
              /\ NothingCommanded]_vars

\* what the bounding rules make of currentWorkers when ComputedMin is below
\* maxWorkers
BoundedCurrent ==
    IF ComputedMin > currentWorkers THEN ComputedMin
    ELSE IF currentWorkers > maxWorkers THEN maxWorkers
    ELSE currentWorkers

Conflicts(w) ==
    LET spec == workers[w].policy.spec
        k    == workers[w].item.key
    IN  /\ listerGet(spec, cacheWorkload[k]) # NIL
        /\ listerGet(spec, apiWorkload[k]) # NIL
        /\ cacheWorkload[k].stale

\* the workload of worker w is not found, in the cache or in the cluster
WorkloadNotFound(w) ==
    LET spec == workers[w].policy.spec
        k    == workers[w].item.key
    IN  \/ listerGet(spec, cacheWorkload[k]) = NIL
        \/ listerGet(spec, apiWorkload[k]) = NIL

\* one attempt of the workload update of worker w
Attempt(w) == workers[w].pc = "scale" /\ workers'[w] # workers[w]

\* C27: the optimistic retry of the workload update terminates.  Each
\* attempt either meets a conflict and is repeated with the same desired
\* count, which happens fewer than RetrySteps times in a row, or ends the
\* loop: an attempt that succeeds leaves the workload with the desired
\* replicas, and a workload that is not found or another error ends the
\* loop at once.
C27_RetryTerminates ==
    /\ [](\A w \in WorkerIds :
            /\ workers[w].attempt \in 0..(RetrySteps - 1)
            /\ workers[w].attempt > 0 => workers[w].pc \in {"scale", "fatal"})
    /\ [][\A w \in WorkerIds :
            Attempt(w) =>
                LET k == workers[w].item.key
                IN  /\ workers'[w].pc = "scale" =>
                          /\ Conflicts(w)
                          /\ workers'[w] =
                                [workers[w] EXCEPT !.attempt = @ + 1]
                          /\ apiWorkload' = apiWorkload
                    /\ workers'[w].pc # "scale" =>
                          /\ workers'[w].pc \in {"status", "fatal"}
                          /\ workers'[w].pc = "status" =>
                                /\ apiWorkload'[k].replicas = workers[w].desired
                                /\ ~Conflicts(w)
                    /\ WorkloadNotFound(w) => workers'[w].pc = "fatal"]_vars

\* the update has met a conflict RetrySteps - 1 times and its last attempt
\* is due
C27_Witness ==
    \E w \in WorkerIds :
        /\ workers[w].pc = "scale"
        /\ workers[w].attempt = RetrySteps - 1
        /\ Conflicts(w)
        /\ ~crashed

\* replica count r respects the bounds of the policy spec
WithinPolicyBounds(spec, r) ==
    IF spec.MinReplicas < spec.MaxReplicas
    THEN spec.MinReplicas <= r /\ r <= spec.MaxReplicas
    ELSE r = spec.MaxReplicas

\* worker w is commanding a workload update, or has commanded one in this
\* reconciliation: updateDeployment / updateReplicaSet was called with the
\* desired count
Commanding(w) ==
    /\ workers[w].pc \in {"scale", "fatal", "status", "updatestatus"}
    /\ workers[w].op \in {ScaleUp, ScaleDown}

\* C28: every workload update syncHandler commands, whether the cluster
\* accepts it or not, carries a replica count r with
\* minReplicas <= r <= maxReplicas of the policy read in that
\* reconciliation if minReplicas < maxReplicas, and r = maxReplicas
\* otherwise.
C28_ReplicaBound ==
    \A w \in WorkerIds :
        Commanding(w) =>
            WithinPolicyBounds(workers[w].policy.spec, workers[w].desired)

\* the workload of a policy whose minimum is not below its maximum was
\* scaled to the maximum
C28_Witness ==
    \E w \in WorkerIds :
        /\ workers[w].pc = "status"
        /\ workers[w].op \in {ScaleUp, ScaleDown}
        /\ workers[w].policy.spec.MinReplicas
              >= workers[w].policy.spec.MaxReplicas
        /\ apiWorkload[workers[w].item.key] # NIL
        /\ apiWorkload[workers[w].item.key].replicas
              = workers[w].policy.spec.MaxReplicas
        /\ workers[w].desired = workers[w].policy.spec.MaxReplicas
=========================================================================
